---------------------------- MODULE Spec2Model ----------------------------
(***************************************************************************)
(* Model of the `lm` crate: the dense matrix container (real_matrix.rs),   *)
(* Data (data.rs), Tolerance (types.rs), the LinearModel state holder      *)
(* (linear_model.rs) and the fitters that hand Data to the LINPACK dqrls   *)
(* routine through the foreign-function boundary                           *)
(* (fitters/qr_decomposition_fitter.rs, fortran/dqrls.rs).                 *)
(***************************************************************************)
EXTENDS Integers, Sequences, FiniteSets, TLC

(***************************************************************************)
(* Bounds of the model.                                                    *)
(***************************************************************************)
\* number of Data values that can be alive at once
MaxData == 2
\* width of the significand of the modelled floating-point format
MantBits == 3
\* largest binary exponent of the modelled floating-point format
MaxExp == 2
\* least-squares coefficients are searched in -CoefMax .. CoefMax
CoefMax == 2
\* number of threads that can be inside dqrls at once
MaxThreads == 2
\* number of next() calls followed on one iterator
MaxNext == 3

(***************************************************************************)
(* f64, scaled down.  A value is an integer m * 2^e with m < 2^MantBits    *)
(* and 0 <= e <= MaxExp, or one of the three special values.  Arithmetic   *)
(* rounds to nearest, ties to even, and overflows to an infinity, as IEEE  *)
(* 754 does; only the widths are smaller.                                  *)
(***************************************************************************)
RECURSIVE Pow2(_)
Pow2(e) == IF e = 0 THEN 1 ELSE 2 * Pow2(e - 1)

FMax == (Pow2(MantBits) - 1) * Pow2(MaxExp)
PosInf == FMax + 1
NegInf == 0 - PosInf
NaN == PosInf + 1

Abs(i) == IF i < 0 THEN 0 - i ELSE i
Sgn(i) == IF i < 0 THEN 0 - 1 ELSE 1

is_finite(v) == v \in (0 - FMax) .. FMax
is_nan(v) == v = NaN

\* the magnitudes below 2^MantBits are stored exactly
MantLimit == Pow2(MantBits)

\* the exponent at which a magnitude a >= MantLimit is stored
RECURSIVE ExpOf(_, _, _)
ExpOf(a, e, lim) == IF a < lim THEN e ELSE ExpOf(a, e + 1, 2 * lim)

\* round the exact integer r to the format
Round(r) ==
    IF (0 - MantLimit) < r /\ r < MantLimit THEN r
    ELSE LET a == Abs(r)
             e == ExpOf(a, 0, MantLimit)
             u == Pow2(e)
             q == a \div u
             rem == a % u
             up == (2 * rem > u) \/ (2 * rem = u /\ q % 2 = 1)
             m == (IF up THEN q + 1 ELSE q) * u
         IN  IF m > FMax THEN Sgn(r) * PosInf ELSE Sgn(r) * m

FNeg(a) == IF is_nan(a) THEN NaN ELSE 0 - a

FAdd(a, b) ==
    IF is_nan(a) \/ is_nan(b) THEN NaN
    ELSE IF ~is_finite(a) /\ ~is_finite(b) THEN (IF a = b THEN a ELSE NaN)
    ELSE IF ~is_finite(a) THEN a
    ELSE IF ~is_finite(b) THEN b
    ELSE Round(a + b)

FSub(a, b) == FAdd(a, FNeg(b))

FMul(a, b) ==
    IF is_nan(a) \/ is_nan(b) THEN NaN
    ELSE IF ~is_finite(a) \/ ~is_finite(b)
         THEN (IF a = 0 \/ b = 0 THEN NaN ELSE Sgn(a) * Sgn(b) * PosInf)
    ELSE Round(a * b)

\* f64's ==: NaN equals nothing
FEq(a, b) == ~is_nan(a) /\ ~is_nan(b) /\ a = b

(***************************************************************************)
(* RealMatrix: a shape and the values in ndarray's default (row-major)     *)
(* order.                                                                  *)
(***************************************************************************)
RealMatrix(r, c, vals) == [n_rows |-> r, n_cols |-> c, values |-> vals]

n_rows(m) == m.n_rows
n_cols(m) == m.n_cols

At(m, i, j) == m.values[(i - 1) * m.n_cols + j]

with_shape(r, c) == RealMatrix(r, c, [k \in 1 .. r * c |-> 0])

\* stands where no matrix is held
NoMatrix == RealMatrix(0, 0, <<>>)

\* how a call ends: Some(v) / None of an Option, Ok(v) / Err of a Result,
\* Unit for a call that returns nothing, Panic for an unwinding panic
\* (assert!, unwrap on an error, an ndarray shape check) and Crash for the
\* process dying inside the foreign routine
Outcome(kind, v) == [kind |-> kind, value |-> v]
Some(v) == Outcome("Some", v)
None == Outcome("None", NoMatrix)
Ok(v) == Outcome("Ok", v)
Err == Outcome("Err", NoMatrix)
Unit == Outcome("Unit", NoMatrix)
\* a plain return value
Val(v) == Outcome("Value", v)
Panic == Outcome("Panic", NoMatrix)
Crash == Outcome("Crash", NoMatrix)

RECURSIVE DotSum(_, _, _, _, _)
DotSum(a, b, i, j, k) ==
    IF k = 0 THEN 0
    ELSE FAdd(DotSum(a, b, i, j, k - 1), FMul(At(a, i, k), At(b, k, j)))

\* ndarray's dot panics when the inner dimensions differ
dot(a, b) ==
    IF a.n_cols # b.n_rows THEN Panic
    ELSE Val(RealMatrix(a.n_rows, b.n_cols,
              [k \in 1 .. a.n_rows * b.n_cols |->
                  DotSum(a, b, ((k - 1) \div b.n_cols) + 1,
                         ((k - 1) % b.n_cols) + 1, a.n_cols)]))

\* ndarray's arithmetic operators broadcast an axis of length 1 and panic
\* when the shapes cannot be broadcast together
BroadcastOk(a, b) ==
    /\ (a.n_rows = b.n_rows \/ a.n_rows = 1 \/ b.n_rows = 1)
    /\ (a.n_cols = b.n_cols \/ a.n_cols = 1 \/ b.n_cols = 1)

BAt(m, i, j) ==
    At(m, IF m.n_rows = 1 THEN 1 ELSE i, IF m.n_cols = 1 THEN 1 ELSE j)

BRows(a, b) == IF a.n_rows = 1 THEN b.n_rows ELSE a.n_rows
BCols(a, b) == IF a.n_cols = 1 THEN b.n_cols ELSE a.n_cols

\* the pairs of entries the operator combines, in row-major order
Paired(a, b) ==
    LET c == BCols(a, b)
    IN  [k \in 1 .. BRows(a, b) * c |->
            << BAt(a, ((k - 1) \div c) + 1, ((k - 1) % c) + 1),
               BAt(b, ((k - 1) \div c) + 1, ((k - 1) % c) + 1) >>]

plus(a, b) ==
    IF ~BroadcastOk(a, b) THEN Panic
    ELSE LET pr == Paired(a, b)
         IN  Val(RealMatrix(BRows(a, b), BCols(a, b),
                 [k \in DOMAIN pr |-> FAdd(pr[k][1], pr[k][2])]))

minus(a, b) ==
    IF ~BroadcastOk(a, b) THEN Panic
    ELSE LET pr == Paired(a, b)
         IN  Val(RealMatrix(BRows(a, b), BCols(a, b),
                 [k \in DOMAIN pr |-> FSub(pr[k][1], pr[k][2])]))

\* an Option<usize>: a flag and a value
SomeCols(c) == [some |-> TRUE, v |-> c]
NoCols == [some |-> FALSE, v |-> 0]

\* n_cols.unwrap_or(1)
unwrap_or(o, v) == IF o.some THEN o.v ELSE v

\* RealMatrix::from_vec: from_shape_vec(...).unwrap() panics when the
\* buffer does not hold n_rows * n_cols values
from_vec(vec, r, c) ==
    IF Len(vec) # r * unwrap_or(c, 1) THEN Panic
    ELSE Val(RealMatrix(r, unwrap_or(c, 1), vec))

\* an Option<f64>
Item(v) == [kind |-> "Some", value |-> v]
NoItem == [kind |-> "None", value |-> 0]

\* Iterator::next of RealMatrix: self.values.iter().next().copied(), the
\* first element of a new iterator over the values at every call
next(m) == IF Len(m.values) = 0 THEN NoItem ELSE Item(m.values[1])

\* PartialEq of RealMatrix: same shape and every pair of entries ==
MatEq(a, b) ==
    /\ a.n_rows = b.n_rows
    /\ a.n_cols = b.n_cols
    /\ \A k \in 1 .. Len(a.values) : FEq(a.values[k], b.values[k])


(***************************************************************************)
(* A tolerance is the decimal m * 10^e; its sign is the sign of m.         *)
(***************************************************************************)
Dec(m, e) == [m |-> m, e |-> e]

\* const DEFAULT_TOL: f64 = 1e-10
DEFAULT_TOL == Dec(1, 0 - 10)

\* a * 10^k > b, for a >= 0, b >= 0, k >= 0, without forming 10^k
RECURSIVE Exceeds(_, _, _)
Exceeds(a, b, k) ==
    IF a = 0 THEN FALSE
    ELSE IF a > b THEN TRUE
    ELSE IF k = 0 THEN FALSE
    ELSE Exceeds(10 * a, b, k - 1)

(***************************************************************************)
(* The LINPACK routine dqrls behind the foreign-function boundary.  Its    *)
(* Fortran source is not among the Rust sources; it is modelled from       *)
(* sections 4.1 - 4.3: Householder QR with column pivoting in place on x,  *)
(* rank from the tolerance, least-squares coefficients with the dropped    *)
(* columns at zero.  Fortran reads and writes its arrays column-major.     *)
(***************************************************************************)
\* x(i,j) of the n x p Fortran array laid over the buffer buf
FAt(buf, n, i, j) == buf[(j - 1) * n + i]

\* exact inner product of columns a and b of x
RECURSIVE ColDot(_, _, _, _, _)
ColDot(buf, n, a, b, i) ==
    IF i = 0 THEN 0
    ELSE ColDot(buf, n, a, b, i - 1) + FAt(buf, n, i, a) * FAt(buf, n, i, b)

\* the function f on 1 .. n as a sequence of its values
Tabulate(f) == f \o <<>>

RemoveAt(s, k) ==
    Tabulate([i \in 1 .. Len(s) - 1 |-> IF i < k THEN s[i] ELSE s[i + 1]])

\* determinant of the Gram matrix of the columns rows x cols (Laplace)
RECURSIVE GramMinor(_, _, _, _)
RECURSIVE GramMinorSum(_, _, _, _, _)
GramMinor(buf, n, rows, cols) ==
    IF Len(rows) = 0 THEN 1 ELSE GramMinorSum(buf, n, rows, cols, Len(cols))
GramMinorSum(buf, n, rows, cols, k) ==
    IF k = 0 THEN 0
    ELSE GramMinorSum(buf, n, rows, cols, k - 1)
         + (IF k % 2 = 1 THEN 1 ELSE 0 - 1)
           * ColDot(buf, n, rows[1], cols[k], n)
           * GramMinor(buf, n, Tail(rows), RemoveAt(cols, k))

\* squared volume spanned by the columns s: zero iff they are dependent
GramDet(buf, n, s) == GramMinor(buf, n, s, s)

Swap(s, a, b) ==
    Tabulate([i \in 1 .. Len(s) |->
                 IF i = a THEN s[b] ELSE IF i = b THEN s[a] ELSE s[i]])

Min(x, y) == IF x <= y THEN x ELSE y

\* 4.1 step 1: at step l the remaining column of largest residual norm is
\* swapped into position l; the first one met wins a tie
RECURSIVE Pivot(_, _, _, _, _)
Pivot(buf, n, p, perm, l) ==
    IF l > Min(n, p) THEN perm
    ELSE LET vol == Tabulate([m \in 1 .. p |->
                        IF m < l THEN 0
                        ELSE GramDet(buf, n, SubSeq(perm, 1, l - 1) \o <<perm[m]>>)])
             best == CHOOSE m \in l .. p :
                         \A m2 \in l .. p :
                             vol[m] > vol[m2] \/ (vol[m] = vol[m2] /\ m <= m2)
         IN  Pivot(buf, n, p, Swap(perm, l, best), l + 1)

\* 4.2: |R[i,i]| > tol * |R[1,1]|, on the squares
\* R[i,i]^2 = GramDet(first i) / GramDet(first i - 1)
AboveTol(buf, n, perm, i, tol) ==
    LET di == GramDet(buf, n, SubSeq(perm, 1, i))
        dp == GramDet(buf, n, SubSeq(perm, 1, i - 1))
        d1 == GramDet(buf, n, SubSeq(perm, 1, 1))
    IN  IF tol.m < 0 THEN d1 > 0
        ELSE IF dp = 0 THEN FALSE
        ELSE IF tol.e > 0 THEN FALSE
        ELSE Exceeds(di, tol.m * tol.m * d1 * dp, 0 - (2 * tol.e))

RECURSIVE Rank(_, _, _, _, _, _)
Rank(buf, n, p, perm, tol, i) ==
    IF i > Min(n, p) THEN i - 1
    ELSE IF AboveTol(buf, n, perm, i, tol) THEN Rank(buf, n, p, perm, tol, i + 1)
    ELSE i - 1

\* exact sum of squared residuals of the coefficient vector w for the
\* response column c
RECURSIVE RowFit(_, _, _, _, _)
RowFit(buf, n, w, i, j) ==
    IF j = 0 THEN 0 ELSE RowFit(buf, n, w, i, j - 1) + FAt(buf, n, i, j) * w[j]

RECURSIVE Ssr(_, _, _, _, _, _)
Ssr(buf, n, ybuf, c, w, i) ==
    IF i = 0 THEN 0
    ELSE LET r == FAt(ybuf, n, i, c) - RowFit(buf, n, w, i, Len(w))
         IN  Ssr(buf, n, ybuf, c, w, i - 1) + r * r

RECURSIVE SumAbs(_, _)
SumAbs(w, j) == IF j = 0 THEN 0 ELSE SumAbs(w, j - 1) + Abs(w[j])

RECURSIVE LexLess(_, _, _)
LexLess(v, w, j) ==
    IF j > Len(v) THEN FALSE
    ELSE IF v[j] # w[j] THEN v[j] < w[j]
    ELSE LexLess(v, w, j + 1)

\* the order in which tied candidates <<residual, size, coefficients>> rank
Before(r, q) ==
    \/ r[1] < q[1]
    \/ r[1] = q[1] /\ r[2] < q[2]
    \/ r[1] = q[1] /\ r[2] = q[2] /\ LexLess(r[3], q[3], 1)

First(S) == CHOOSE r \in S : \A q \in S : r = q \/ Before(r, q)

\* 4.3: the coefficients of response column c: the minimiser of the
\* residual over the representable coefficients with the columns beyond
\* the rank held at zero (the smallest such minimiser when several tie)
Solve(buf, n, p, ybuf, c, perm, k) ==
    LET cand == {w \in [1 .. p -> (0 - CoefMax) .. CoefMax] :
                    \A i \in (k + 1) .. p : w[perm[i]] = 0}
    IN  First({<<Ssr(buf, n, ybuf, c, w, n), SumAbs(w, p), w>> : w \in cand})[3]

FDiv(a, b) ==
    IF is_nan(a) \/ is_nan(b) THEN NaN
    ELSE IF ~is_finite(a) /\ ~is_finite(b) THEN NaN
    ELSE IF ~is_finite(a) THEN Sgn(a) * Sgn(b) * PosInf
    ELSE IF ~is_finite(b) THEN 0
    ELSE IF b = 0 THEN (IF a = 0 THEN NaN ELSE Sgn(a) * PosInf)
    ELSE Round(Sgn(a) * Sgn(b) * ((2 * Abs(a) + Abs(b)) \div (2 * Abs(b))))

FSqrt(a) ==
    IF is_nan(a) \/ a < 0 THEN NaN
    ELSE IF ~is_finite(a) THEN a
    ELSE LET s == CHOOSE t \in 0 .. a : t * t <= a /\ a < (t + 1) * (t + 1)
         IN  Round(IF a - s * s > s THEN s + 1 ELSE s)

RECURSIVE FSum(_, _, _)
FSum(f, lo, hi) == IF hi < lo THEN 0 ELSE FAdd(FSum(f, lo, hi - 1), f[hi])

\* 4.1 steps 2 and 3 at pivot step l, in the arithmetic of the format: the
\* reflector of column l replaces the column below the diagonal, -norm is
\* left on the diagonal and the trailing columns are reflected
Householder(buf, n, p, l) ==
    LET x(i, j) == FAt(buf, n, i, j)
        nrm0 == FSqrt(FSum([i \in l .. n |-> FMul(x(i, l), x(i, l))], l, n))
        nrm == IF x(l, l) < 0 THEN FNeg(nrm0) ELSE nrm0
        u == Tabulate([i \in 1 .. n |->
                 IF i < l THEN 0
                 ELSE IF i = l THEN FAdd(FDiv(x(l, l), nrm), 1)
                 ELSE FDiv(x(i, l), nrm)])
        t == Tabulate([j \in 1 .. p |->
                 IF j <= l THEN 0
                 ELSE FNeg(FDiv(FSum([i \in l .. n |-> FMul(u[i], x(i, j))], l, n),
                                u[l]))])
        cell(i, j) ==
            IF i < l \/ j < l THEN x(i, j)
            ELSE IF j = l THEN (IF i = l THEN FNeg(nrm) ELSE u[i])
            ELSE FAdd(x(i, j), FMul(t[j], u[i]))
    IN  IF nrm0 = 0 THEN buf
        ELSE Tabulate([k \in 1 .. n * p |->
                          cell(((k - 1) % n) + 1, ((k - 1) \div n) + 1)])

RECURSIVE Decompose(_, _, _, _)
Decompose(buf, n, p, l) ==
    IF l > Min(n, p) THEN buf
    ELSE Decompose(Householder(buf, n, p, l), n, p, l + 1)

\* the columns cols[1], ..., cols[ny] of length p, one after the other
Flatten(cols, p, ny) ==
    Tabulate([i \in 1 .. p * ny |-> cols[((i - 1) \div p) + 1][((i - 1) % p) + 1]])

\* subroutine dqrls(x,n,p,y,ny,tol,b,rsd,qty,k,jpvt,qraux,work): what it
\* leaves in x (overwritten in place), b (p x ny), k and jpvt
f_dqrls(xbuf, n, p, ybuf, ny, tol) ==
    LET xfin == \A i \in 1 .. n * p : is_finite(xbuf[i])
        yfin(c) == \A i \in 1 .. n : is_finite(FAt(ybuf, n, i, c))
        perm == IF xfin THEN Pivot(xbuf, n, p, Tabulate([j \in 1 .. p |-> j]), 1)
                ELSE Tabulate([j \in 1 .. p |-> j])
        k == IF xfin THEN Rank(xbuf, n, p, perm, tol, 1) ELSE 0
        pivoted == Tabulate([i \in 1 .. n * p |->
                       FAt(xbuf, n, ((i - 1) % n) + 1, perm[((i - 1) \div n) + 1])])
        \* a column kept although its diagonal is zero: division by zero
        singular == \E i \in 1 .. k : GramDet(xbuf, n, SubSeq(perm, 1, i)) = 0
        kept(j) == \E i \in 1 .. k : perm[i] = j
        col(c) == IF ~xfin \/ ~yfin(c) THEN [j \in 1 .. p |-> NaN]
                  ELSE IF singular THEN [j \in 1 .. p |-> IF kept(j) THEN NaN ELSE 0]
                  ELSE Solve(xbuf, n, p, ybuf, c, perm, k)
    IN  [x |-> IF xfin THEN Decompose(pivoted, n, p, 1)
               ELSE [i \in 1 .. n * p |-> NaN],
         b |-> Flatten(Tabulate([c \in 1 .. ny |-> Tabulate(col(c))]), p, ny),
         k |-> k,
         jpvt |-> perm]


(***************************************************************************)
(* The inputs the operations are tried on.                                 *)
(***************************************************************************)
\* (x, y) pairs handed to Data::new
SampleData ==
    { \* n = p: the identity design
      <<RealMatrix(2, 2, <<1, 0, 0, 1>>), RealMatrix(2, 1, <<1, 2>>)>>,
      \* n = p, two equal columns as dqrls reads them
      <<RealMatrix(2, 2, <<1, 0, 1, 0>>), RealMatrix(2, 1, <<1, 2>>)>>,
      \* n > p
      <<RealMatrix(2, 1, <<1, 0>>), RealMatrix(2, 1, <<1, 2>>)>>,
      \* X has 3 rows, Y has 2
      <<RealMatrix(3, 1, <<1, 0, 0>>), RealMatrix(2, 1, <<1, 2>>)>>,
      \* a NaN in X
      <<RealMatrix(2, 1, <<1, NaN>>), RealMatrix(2, 1, <<1, 2>>)>>,
      \* an infinity in Y
      <<RealMatrix(2, 1, <<1, 0>>), RealMatrix(2, 1, <<1, PosInf>>)>>,
      \* n < p
      <<RealMatrix(1, 2, <<1, 1>>), RealMatrix(1, 1, <<1>>)>> }

\* values handed to Tolerance::new(Some(v)) and to
\* FortranLeastSquaresQrDecomposition::new(data, Some(v))
SampleTol == {Dec(0 - 1, 0), Dec(0, 0), Dec(1, 0 - 5)}

\* matrices handed to update_coefficients
SampleCoefficients ==
    { RealMatrix(2, 1, <<1, 1>>),
      RealMatrix(1, 1, <<10>>),
      RealMatrix(1, 1, <<PosInf>>) }

\* matrices handed to predict(Some(x))
SamplePredictX ==
    { RealMatrix(1, 2, <<1, 1>>),
      RealMatrix(1, 1, <<3>>) }

\* (buffer, n_rows, n_cols) handed to RealMatrix::from_vec
SampleVec ==
    { <<(<<1, 2>>), 2, NoCols>>,
      <<(<<3>>), 1, SomeCols(1)>>,
      <<(<<1, 2>>), 1, SomeCols(2)>>,
      <<(<<1, 2, 3, 4>>), 2, SomeCols(2)>>,
      <<(<<>>), 0, NoCols>>,
      \* one value too many
      <<(<<1, 2, 3>>), 2, NoCols>>,
      \* one value too few
      <<(<<1>>), 2, SomeCols(1)>> }

\* the matrices handed to plus, minus and dot as the other operand
SampleOther ==
    {r.value : r \in {q \in {from_vec(a[1], a[2], a[3]) : a \in SampleVec} :
                         q.kind = "Value"}}

\* what a read past the end of a buffer can find
Garbage == {0, NaN}


(***************************************************************************)
(* lib.rs: the checks the crate defines.  No constructor and no fitter     *)
(* calls them.                                                             *)
(***************************************************************************)
check_that_x_and_y_have_the_same_number_of_rows(x, y) ==
    IF x.n_rows = y.n_rows THEN Unit ELSE Panic

check_that_2d_matrix_x_is_numeric(x) ==
    IF \A k \in 1 .. Len(x.values) : is_finite(x.values[k]) THEN Unit ELSE Panic

(***************************************************************************)
(* data.rs                                                                 *)
(***************************************************************************)
Data_new(x, y) == [x |-> x, y |-> y]

(***************************************************************************)
(* types.rs: Tolerance.  An Option<f64> is a flag and a value.             *)
(***************************************************************************)
SomeTol(v) == [some |-> TRUE, v |-> v]
NoTol == [some |-> FALSE, v |-> Dec(0, 0)]

\* assert!(value > 0.0)
ToleranceAccepts(v) == v.m > 0

\* Tolerance::new: the Tolerance built, or a panic
Tolerance_new(value) ==
    IF value.some
    THEN (IF ToleranceAccepts(value.v)
          THEN [kind |-> "Value", value |-> value.v]
          ELSE [kind |-> "Panic", value |-> value.v])
    ELSE [kind |-> "Value", value |-> DEFAULT_TOL]

Tolerance_default == DEFAULT_TOL

(***************************************************************************)
(* fitters/qr_decomposition_fitter.rs                                      *)
(***************************************************************************)
get_dimensions(d) == <<d.x.n_rows, d.x.n_cols, d.y.n_cols>>

allocate_solution_arrays(d) ==
    << with_shape(d.x.n_rows, d.y.n_cols),
       with_shape(d.x.n_rows, d.y.n_cols),
       with_shape(d.x.n_rows, d.y.n_cols) >>

allocate_auxiliary_arrays(d) ==
    << [j \in 1 .. d.x.n_cols |-> 0],
       [j \in 1 .. d.x.n_cols |-> 0],
       [j \in 1 .. d.x.n_cols |-> 0] >>

\* FortranLeastSquaresQrDecomposition::tol: self.tol.unwrap_or(1e-10)
tol(t) == IF t.some THEN t.v ELSE Dec(1, 0 - 10)

\* one invocation of the foreign routine: the arguments it was given
\* and what came back
Call(t, d, r) == [invoked |-> TRUE, tol |-> t, x |-> d.x, y |-> d.y, ret |-> r]
NoCall ==
    [invoked |-> FALSE, tol |-> Dec(0, 0), x |-> NoMatrix, y |-> NoMatrix, ret |-> Unit]

\* dqrls once the routine has returned f: the coefficient buffer with the
\* p * ny values written into it, and x as the routine left it
Returned(d, t, coefficients, f) ==
    LET beta == RealMatrix(coefficients.n_rows, coefficients.n_cols,
                    [i \in 1 .. Len(coefficients.values) |->
                        IF i <= d.x.n_cols * d.y.n_cols THEN f.b[i]
                        ELSE coefficients.values[i]])
    IN  [ret |-> Ok(beta), x |-> RealMatrix(d.x.n_rows, d.x.n_cols, f.x),
         call |-> Call(tol(t), d, Ok(beta))]

\* FortranLeastSquaresQrDecomposition::new(data, tol).dqrls(): the ways the
\* call can end.  x is handed over as *mut f64 and is overwritten in place;
\* the routine reads n * ny values of y and writes p * ny values of b, and
\* the buffers hold y.n_rows * ny and n * ny.  Reading or writing past a
\* buffer is undefined: the process dies, or the read finds whatever is
\* there and the write lands outside the matrix returned.
dqrls(d, t) ==
    LET dims == get_dimensions(d)
        n == dims[1]
        p == dims[2]
        ny == dims[3]
        coefficients == allocate_solution_arrays(d)[1]
        have == Len(d.y.values)
        ybufs == IF have >= n * ny THEN {d.y.values}
                 ELSE {d.y.values \o [i \in 1 .. (n * ny - have) |-> g] : g \in Garbage}
        undefined == have < n * ny \/ p * ny > Len(coefficients.values)
    IN  {Returned(d, t, coefficients, f_dqrls(d.x.values, n, p, ybuf, ny, tol(t))) :
             ybuf \in ybufs}
        \cup (IF undefined
              THEN {[ret |-> Crash, x |-> d.x, call |-> Call(tol(t), d, Crash)]}
              ELSE {})

\* QrDecompositionFitter::fit: Ok(fitted.beta), or Err(Unknown)
QrDecompositionFitter_fit(d) ==
    {[o EXCEPT !.ret = IF o.ret.kind = "Ok" THEN Ok(o.ret.value)
                       ELSE IF o.ret.kind = "Err" THEN Err
                       ELSE o.ret] : o \in dqrls(d, NoTol)}

(***************************************************************************)
(* linear_model.rs.  The model holds a reference to its Data: the index    *)
(* of the Data in the store.                                               *)
(***************************************************************************)
NoModel == [variant |-> "None", data |-> 0, coefficients |-> NoMatrix]

UnfittedLinearModel_new(d) ==
    [variant |-> "Unfitted", data |-> d, coefficients |-> NoMatrix]

LinearModel_new(d) == UnfittedLinearModel_new(d)

\* FittedLinearModel::update_coefficients that keeps the matrix it holds
FittedLinearModel_update_coefficients_keeps(m, coefficients) == m

FittedLinearModel_update_coefficients(m, coefficients) ==
    [m EXCEPT !.coefficients = coefficients]

\* LinearModel::update_coefficients that makes an Unfitted model Fitted
\* with the matrix supplied
LinearModel_update_coefficients_fits(m, coefficients) ==
    [variant |-> "Fitted", data |-> m.data, coefficients |-> coefficients]

\* LinearModel::update_coefficients that rebuilds the model from its Data
LinearModel_update_coefficients_rebuilds(m, coefficients) ==
    IF m.variant = "Fitted" THEN LinearModel_new(m.data) ELSE m

LinearModel_update_coefficients(m, coefficients) ==
    IF m.variant = "Fitted"
    THEN FittedLinearModel_update_coefficients(m, coefficients)
    ELSE m

\* LinearModel::fit whose Unfitted arm updates coefficients as the Fitted
\* arm does and never replaces the variant
LinearModel_fit_no_transition(m, r) ==
    IF r.kind # "Ok" THEN m ELSE LinearModel_update_coefficients(m, r.value)

\* LinearModel::fit once fitter.fit() has returned r: unwrap panics on an
\* error and leaves the model as it was
LinearModel_fit(m, r) ==
    IF r.kind # "Ok" THEN m
    ELSE IF m.variant = "Fitted"
    THEN LinearModel_update_coefficients(m, r.value)
    ELSE [variant |-> "Fitted", data |-> m.data, coefficients |-> r.value]

LinearModel_coefficients(m) ==
    IF m.variant = "Fitted" THEN Some(m.coefficients) ELSE None

\* x is Some(matrix) or None
FittedLinearModel_predict(m, D, x) ==
    IF x.kind = "Some" THEN dot(x.value, m.coefficients)
    ELSE dot(D.x, m.coefficients)

\* FittedLinearModel::residuals with the operands of minus exchanged
FittedLinearModel_residuals_reversed(m, D) ==
    LET pr == FittedLinearModel_predict(m, D, Some(D.x))
    IN  IF pr.kind = "Panic" THEN Panic ELSE minus(pr.value, D.y)

FittedLinearModel_residuals(m, D) ==
    LET pr == FittedLinearModel_predict(m, D, Some(D.x))
    IN  IF pr.kind = "Panic" THEN Panic ELSE minus(D.y, pr.value)

\* LinearModel::predict whose Unfitted arm returns an empty matrix
LinearModel_predict_empty(m, D, x) ==
    IF m.variant = "Fitted"
    THEN LET r == FittedLinearModel_predict(m, D, x)
         IN  IF r.kind = "Panic" THEN Panic ELSE Some(r.value)
    ELSE Some(NoMatrix)

LinearModel_predict(m, D, x) ==
    IF m.variant = "Fitted"
    THEN LET r == FittedLinearModel_predict(m, D, x)
         IN  IF r.kind = "Panic" THEN Panic ELSE Some(r.value)
    ELSE None

LinearModel_residuals(m, D) ==
    IF m.variant = "Fitted"
    THEN LET r == FittedLinearModel_residuals(m, D)
         IN  IF r.kind = "Panic" THEN Panic ELSE Some(r.value)
    ELSE None


(***************************************************************************)
(* The state: the Data values alive and one LinearModel; what the last     *)
(* operation was, the model it was called on (before), how it ended, the   *)
(* Tolerance it built and what it handed to the foreign routine; the       *)
(* dqrls calls that threads have in progress (calls) and the RealMatrix    *)
(* the last matrix operation was called on (mat).  A Tolerance and a       *)
(* QrDecompositionFitter are immutable once built (no method changes       *)
(* them), so they are values the operations take, not state.               *)
(***************************************************************************)
VARIABLES data, lm, before, op, ret, tolerance, ffi, alive, calls, mat

vars == <<data, lm, before, op, ret, tolerance, ffi, alive, calls, mat>>

Threads == 1 .. MaxThreads

\* a thread that is in no call
Idle ==
    [pc |-> "idle", d |-> 0, tol |-> NoTol, seen |-> Data_new(NoMatrix, NoMatrix),
     out |-> NoMatrix, beta |-> NoMatrix]

\* no matrix operation yet: the matrix and what its iterator has yielded
NoMat == [self |-> NoMatrix, yielded |-> <<>>]

DataIds == 1 .. MaxData

NoData == Data_new(NoMatrix, NoMatrix)
Live(d) == d \in DataIds /\ data[d] # NoData

\* QrDecompositionFitter::new(&data)
QrDecompositionFitter_new(d) == [data |-> d, lm |-> LinearModel_new(d)]

\* the Tolerance values that can be built
Tolerances ==
    {r.value : r \in {q \in {Tolerance_new(SomeTol(v)) : v \in SampleTol}
                             \cup {Tolerance_new(NoTol)} : q.kind = "Value"}}
    \cup {Tolerance_default}

\* the operation: its name, the Data it names, its matrix argument and its
\* tolerance argument
Op(name, d, arg, t) == [name |-> name, d |-> d, arg |-> arg, tol |-> t]

Init ==
    /\ data = [d \in DataIds |-> NoData]
    /\ lm = NoModel
    /\ before = NoModel
    /\ op = Op("start", 0, None, NoTol)
    /\ ret = Unit
    /\ tolerance = NoTol
    /\ ffi = NoCall
    /\ alive = TRUE
    /\ calls = [t \in Threads |-> Idle]
    /\ mat = NoMat

\* Data::new(x, y)
DataNew(x, y) ==
    /\ alive
    /\ \E d \in DataIds :
        /\ ~Live(d)
        /\ \A e \in DataIds : e < d => Live(e)
        /\ data' = [data EXCEPT ![d] = Data_new(x, y)]
        /\ op' = Op("Data::new", d, None, NoTol)
        /\ before' = lm
        /\ UNCHANGED <<calls, mat>>
    /\ ret' = Unit
    /\ tolerance' = NoTol
    /\ ffi' = NoCall
    /\ UNCHANGED <<lm, alive>>

\* Tolerance::new(value)
ToleranceNew(value) ==
    /\ alive
    /\ LET r == Tolerance_new(value)
       IN  /\ tolerance' = IF r.kind = "Panic" THEN NoTol ELSE SomeTol(r.value)
           /\ ret' = IF r.kind = "Panic" THEN Panic ELSE Unit
    /\ op' = Op("Tolerance::new", 0, None, value)
    /\ before' = lm
    /\ UNCHANGED <<calls, mat>>
    /\ ffi' = NoCall
    /\ UNCHANGED <<data, lm, alive>>

\* Tolerance::default()
ToleranceDefault ==
    /\ alive
    /\ tolerance' = SomeTol(Tolerance_default)
    /\ op' = Op("Tolerance::default", 0, None, NoTol)
    /\ before' = lm
    /\ UNCHANGED <<calls, mat>>
    /\ ret' = Unit
    /\ ffi' = NoCall
    /\ UNCHANGED <<data, lm, alive>>

\* LinearModel::new(&data)
LinearModelNew(d) ==
    /\ alive
    /\ Live(d)
    /\ lm = NoModel
    /\ lm' = LinearModel_new(d)
    /\ op' = Op("LinearModel::new", d, None, NoTol)
    /\ before' = lm
    /\ UNCHANGED <<calls, mat>>
    /\ ret' = Unit
    /\ tolerance' = NoTol
    /\ ffi' = NoCall
    /\ UNCHANGED <<data, alive>>

\* model.fit(&fitter), the fitter built on the Data d
Fit(d) ==
    /\ alive
    /\ lm # NoModel
    /\ Live(d)
    /\ LET fitter == QrDecompositionFitter_new(d)
       IN  \E o \in QrDecompositionFitter_fit(data[fitter.data]) :
            /\ ffi' = o.call
            /\ IF o.ret.kind = "Crash"
               THEN /\ alive' = FALSE
                    /\ ret' = Crash
                    /\ UNCHANGED <<data, lm>>
               ELSE /\ data' = [data EXCEPT ![fitter.data].x = o.x]
                    /\ lm' = LinearModel_fit(lm, o.ret)
                    /\ ret' = IF o.ret.kind = "Ok" THEN Unit ELSE Panic
                    /\ UNCHANGED alive
    /\ op' = Op("LinearModel::fit", d, None, NoTol)
    /\ before' = lm
    /\ UNCHANGED <<calls, mat>>
    /\ tolerance' = NoTol

\* model.fit(&fitter) with a fitter (any implementation of the fitter
\* trait) whose fit() returns Err(e): unwrap() panics before the model is
\* assigned, and fit has no value to return
FitFailing ==
    /\ alive
    /\ lm # NoModel
    /\ lm' = LinearModel_fit(lm, Err)
    /\ ret' = Panic
    /\ op' = Op("LinearModel::fit", lm.data, Err, NoTol)
    /\ before' = lm
    /\ UNCHANGED <<calls, mat>>
    /\ tolerance' = NoTol
    /\ ffi' = NoCall
    /\ UNCHANGED <<data, alive>>

\* FortranLeastSquaresQrDecomposition::new(&data, tol).dqrls()
Dqrls(d, t) ==
    /\ alive
    /\ Live(d)
    /\ \E o \in dqrls(data[d], t) :
        /\ ffi' = o.call
        /\ ret' = o.ret
        /\ alive' = (o.ret.kind # "Crash")
        /\ data' = [data EXCEPT ![d].x = o.x]
    /\ op' = Op("FortranLeastSquaresQrDecomposition::dqrls", d, None, t)
    /\ before' = lm
    /\ UNCHANGED <<calls, mat>>
    /\ tolerance' = NoTol
    /\ UNCHANGED lm

\* FortranDqrls::new(&data, tolerance, None).solve(): the row and column
\* counts are cast to pointers (n_rows as *const c_int), so the routine
\* reads its dimensions from the addresses 1, 2, ... and the process dies
FortranDqrlsSolve(d, t) ==
    /\ alive
    /\ Live(d)
    /\ ffi' = Call(t, data[d], Crash)
    /\ ret' = Crash
    /\ alive' = FALSE
    /\ op' = Op("FortranDqrls::solve", d, None, SomeTol(t))
    /\ before' = lm
    /\ UNCHANGED <<calls, mat>>
    /\ tolerance' = NoTol
    /\ UNCHANGED <<data, lm>>

\* model.update_coefficients(coefficients)
UpdateCoefficients(coefficients) ==
    /\ alive
    /\ lm # NoModel
    /\ lm' = LinearModel_update_coefficients(lm, coefficients)
    /\ op' = Op("LinearModel::update_coefficients", lm.data, Some(coefficients), NoTol)
    /\ before' = lm
    /\ UNCHANGED <<calls, mat>>
    /\ ret' = Unit
    /\ tolerance' = NoTol
    /\ ffi' = NoCall
    /\ UNCHANGED <<data, alive>>

\* an operation that reads the model and returns r
Query(name, arg, r) ==
    /\ alive
    /\ lm # NoModel
    /\ ret' = r
    /\ op' = Op(name, lm.data, arg, NoTol)
    /\ before' = lm
    /\ UNCHANGED <<calls, mat>>
    /\ tolerance' = NoTol
    /\ ffi' = NoCall
    /\ UNCHANGED <<data, lm, alive>>

\* model.predict(x)
Predict(x) ==
    Query("LinearModel::predict", x, LinearModel_predict(lm, data[lm.data], x))

\* model.residuals()
Residuals ==
    Query("LinearModel::residuals", None, LinearModel_residuals(lm, data[lm.data]))

\* model.coefficients()
Coefficients ==
    Query("LinearModel::coefficients", None, LinearModel_coefficients(lm))

\* model.data(), model.x(): the held Data, read
GetX == Query("LinearModel::x", None, Val(data[lm.data].x))

\* model.y()
GetY == Query("LinearModel::y", None, Val(data[lm.data].y))

\* The model's life: Data, one LinearModel, fits through a
\* QrDecompositionFitter, and the queries.
Next ==
    \/ \E xy \in SampleData : DataNew(xy[1], xy[2])
    \/ \E d \in DataIds : LinearModelNew(d)
    \/ \E d \in DataIds : Fit(d)
    \/ FitFailing
    \/ \E c \in SampleCoefficients : UpdateCoefficients(c)
    \/ \E x \in SamplePredictX : Predict(Some(x))
    \/ Predict(None)
    \/ Residuals
    \/ Coefficients
    \/ GetX
    \/ GetY

Spec == Init /\ [][Next]_vars

\* a thread enters FortranLeastSquaresQrDecomposition::new(&data, t).dqrls():
\* the dimensions are read and the arrays allocated (lines 141 - 146).
\* seen is the Data as the call finds it.
Enter(t, d, tl) ==
    /\ alive
    /\ Live(d)
    /\ calls[t].pc = "idle"
    /\ calls' = [calls EXCEPT ![t] =
                    [pc |-> "entered", d |-> d, tol |-> tl, seen |-> data[d],
                     out |-> NoMatrix, beta |-> NoMatrix]]
    /\ op' = Op("FortranLeastSquaresQrDecomposition::new", d, None, tl)
    /\ before' = lm
    /\ ret' = Unit
    /\ tolerance' = NoTol
    /\ ffi' = NoCall
    /\ UNCHANGED <<data, lm, alive, mat>>

\* the x buffers a thread's f_dqrls call can read: the buffer as it is, or,
\* while the routine of another thread is writing the same buffer through
\* its own *mut f64 (a data race), any mix, entry by entry, of the buffer
\* as it is and as that routine leaves it
Views(t) ==
    LET d == calls[t].d
        x == data[d].x.values
        written == {calls[u].out.values :
                       u \in {v \in Threads \ {t} :
                                 calls[v].pc = "running" /\ calls[v].d = d}}
    IN  {x} \cup {Tabulate([i \in 1 .. Len(x) |-> IF i \in S THEN w[i] ELSE x[i]]) :
                     S \in SUBSET (1 .. Len(x)), w \in written}

\* the thread's f_dqrls call runs (lines 148 - 164): it reads x and y and
\* computes; what it writes to x lands while it runs
Run(t) ==
    /\ alive
    /\ calls[t].pc = "entered"
    /\ LET d == calls[t].d
       IN  /\ \E v \in Views(t) :
                \E o \in dqrls(Data_new(RealMatrix(data[d].x.n_rows, data[d].x.n_cols, v),
                                        data[d].y), calls[t].tol) :
                    /\ ffi' = o.call
                    /\ alive' = (o.ret.kind # "Crash")
                    /\ calls' = [calls EXCEPT ![t].pc = "running", ![t].out = o.x,
                                              ![t].beta = o.ret.value]
           /\ op' = Op("f_dqrls", d, None, calls[t].tol)
    /\ before' = lm
    /\ ret' = Unit
    /\ tolerance' = NoTol
    /\ UNCHANGED <<data, lm, mat>>

\* the routine has written x and dqrls returns Ok with the coefficients
\* (lines 166 - 173)
Leave(t) ==
    /\ alive
    /\ calls[t].pc = "running"
    /\ data' = [data EXCEPT ![calls[t].d].x = calls[t].out]
    /\ calls' = [calls EXCEPT ![t].pc = "done"]
    /\ ret' = Ok(calls[t].beta)
    /\ op' = Op("FortranLeastSquaresQrDecomposition::dqrls", calls[t].d, None, calls[t].tol)
    /\ before' = lm
    /\ tolerance' = NoTol
    /\ ffi' = NoCall
    /\ UNCHANGED <<lm, alive, mat>>

\* Data on which dqrls has one way to end: as many rows in Y as in X and
\* room in the coefficient buffer for the p * ny values written
WellFormed(S) ==
    {xy \in S : /\ xy[1].n_rows = xy[2].n_rows
                /\ xy[1].n_cols * xy[2].n_cols
                       <= Len(allocate_solution_arrays(Data_new(xy[1], xy[2]))[1].values)}

\* Threads that share one Data and call dqrls on it, each with its own
\* tolerance.
InitConc ==
    /\ \E xy \in WellFormed(SampleData) :
           data = [d \in DataIds |-> IF d = 1 THEN Data_new(xy[1], xy[2]) ELSE NoData]
    /\ lm = NoModel
    /\ before = NoModel
    /\ op = Op("start", 0, None, NoTol)
    /\ ret = Unit
    /\ tolerance = NoTol
    /\ ffi = NoCall
    /\ alive = TRUE
    /\ calls = [t \in Threads |-> Idle]
    /\ mat = NoMat

NextConc ==
    \/ \E t \in Threads : \E v \in SampleTol : Enter(t, 1, SomeTol(v))
    \/ \E t \in Threads : Enter(t, 1, NoTol)
    \/ \E t \in Threads : Run(t)
    \/ \E t \in Threads : Leave(t)

SpecConc == InitConc /\ [][NextConc]_vars

\* Tolerances and the calls that hand a tolerance to the foreign routine.
\* No LinearModel operation takes a tolerance (QrDecompositionFitter::fit
\* passes None), so these are explored apart from the model's life.
NextTol ==
    \/ \E xy \in SampleData : DataNew(xy[1], xy[2])
    \/ \E v \in SampleTol : ToleranceNew(SomeTol(v))
    \/ ToleranceNew(NoTol)
    \/ ToleranceDefault
    \/ \E d \in DataIds : \E v \in SampleTol : Dqrls(d, SomeTol(v))
    \/ \E d \in DataIds : Dqrls(d, NoTol)
    \/ \E d \in DataIds : \E t \in Tolerances : FortranDqrlsSolve(d, t)

SpecTol == Init /\ [][NextTol]_vars

\* RealMatrix::from_vec(vec, r, c); the matrix built is the one the
\* operations below are called on
FromVec(vec, r, c) ==
    /\ alive
    /\ ret' = from_vec(vec, r, c)
    /\ mat' = IF ret'.kind = "Value" THEN [self |-> ret'.value, yielded |-> <<>>]
              ELSE mat
    /\ op' = Op("RealMatrix::from_vec", 0, Some(RealMatrix(r, unwrap_or(c, 1), vec)), NoTol)
    /\ before' = lm
    /\ tolerance' = NoTol
    /\ ffi' = NoCall
    /\ UNCHANGED <<data, lm, alive, calls>>

\* an operation of the matrix with another matrix, returning r
Binary(name, other, r) ==
    /\ alive
    /\ mat # NoMat
    /\ ret' = r
    /\ op' = Op(name, 0, Some(other), NoTol)
    /\ before' = lm
    /\ tolerance' = NoTol
    /\ ffi' = NoCall
    /\ UNCHANGED <<data, lm, alive, calls, mat>>

\* self.plus(&other)
Plus(other) == Binary("RealMatrix::plus", other, plus(mat.self, other))

\* self.minus(&other)
Minus(other) == Binary("RealMatrix::minus", other, minus(mat.self, other))

\* self.dot(&other)
MatDot(other) == Binary("RealMatrix::dot", other, dot(mat.self, other))

\* self.next(): the matrix used as an iterator
IterNext ==
    /\ alive
    /\ mat # NoMat
    /\ Len(mat.yielded) < MaxNext
    /\ mat' = [mat EXCEPT !.yielded = Append(@, next(mat.self))]
    /\ ret' = Unit
    /\ op' = Op("RealMatrix::next", 0, None, NoTol)
    /\ before' = lm
    /\ tolerance' = NoTol
    /\ ffi' = NoCall
    /\ UNCHANGED <<data, lm, alive, calls>>

\* Matrices built from buffers, combined with one another and iterated.
NextMat ==
    \/ \E a \in SampleVec : FromVec(a[1], a[2], a[3])
    \/ \E o \in SampleOther : Plus(o)
    \/ \E o \in SampleOther : Minus(o)
    \/ \E o \in SampleOther : MatDot(o)
    \/ IterNext

SpecMat == Init /\ [][NextMat]_vars

(***************************************************************************)
(* The model's lifecycle.                                                  *)
(***************************************************************************)
NonZero(m) == \E k \in 1 .. Len(m.values) : m.values[k] # 0

Fits == op.name = "LinearModel::fit"

\* C1: a model created by LinearModel::new(data) is Unfitted and holds that
\* Data; a fit that returns on an Unfitted model leaves it Fitted, holding
\* the same Data and the matrix the fitter returned; and a model that was
\* Unfitted before an operation and is Fitted after it was fitted by it.
C1_FirstFit ==
    /\ op.name = "LinearModel::new" => lm = UnfittedLinearModel_new(op.d)
    /\ (Fits /\ before.variant = "Unfitted" /\ ret.kind = "Unit")
           => /\ lm.variant = "Fitted"
              /\ lm.data = before.data
              /\ ffi.ret = Ok(lm.coefficients)
    /\ (before.variant = "Unfitted" /\ lm.variant = "Fitted") => Fits

\* a first fit has returned coefficients that are not all zero
C1_Witness ==
    /\ Fits
    /\ before.variant = "Unfitted"
    /\ lm.variant = "Fitted"
    /\ ffi.ret = Ok(lm.coefficients)
    /\ NonZero(lm.coefficients)

\* C2: once Fitted, always Fitted: no step takes a Fitted model to another
\* variant.
C2_StaysFitted == [][lm.variant = "Fitted" => lm'.variant = "Fitted"]_vars

\* update_coefficients has acted on a Fitted model
C2_Witness ==
    /\ op.name = "LinearModel::update_coefficients"
    /\ before.variant = "Fitted"
    /\ lm.variant = "Fitted"
    /\ lm.coefficients # before.coefficients

\* C3: a fit that returns on a Fitted model leaves exactly the matrix this
\* fit returned as the coefficients, and that matrix is one the fitter
\* computes from its Data alone, whatever the coefficients before; the
\* Data reference held is the one held before.
C3_RefitOverwrites ==
    (Fits /\ before.variant = "Fitted" /\ ret.kind = "Unit")
        => /\ ffi.ret = Ok(lm.coefficients)
           /\ \E o \in QrDecompositionFitter_fit(Data_new(ffi.x, ffi.y)) :
                  o.ret = Ok(lm.coefficients)
           /\ lm.data = before.data

\* a refit has replaced coefficients that were different
C3_Witness ==
    /\ Fits
    /\ before.variant = "Fitted"
    /\ ret.kind = "Unit"
    /\ NonZero(before.coefficients)
    /\ lm.coefficients # before.coefficients

(***************************************************************************)
(* The queries.                                                            *)
(***************************************************************************)
QueriedUnfitted ==
    /\ op.name \in {"LinearModel::predict", "LinearModel::residuals"}
    /\ before.variant = "Unfitted"

\* C4 as stated: predict (with or without x) and residuals on an Unfitted
\* model end in an error, not in an absent result.
C4_UnfittedQueryIsError == QueriedUnfitted => ret.kind = "Err"

\* C4, amended: predict (with or without x) and residuals on an Unfitted
\* model return None, the absent Option, raise nothing and leave the model
\* as it was.
C4_UnfittedQueryIsNone == QueriedUnfitted => (ret = None /\ lm = before)

\* predict(Some(x)) has returned on an Unfitted model
C4_Witness ==
    /\ op.name = "LinearModel::predict"
    /\ op.arg.kind = "Some"
    /\ before.variant = "Unfitted"
    /\ lm.variant = "Unfitted"

\* the sum predict(Data.X) + residuals() of a Fitted model
Reconstructed(m, D) ==
    LET pr == LinearModel_predict(m, D, Some(D.x))
        rs == LinearModel_residuals(m, D)
    IN  IF pr.kind = "Some" /\ rs.kind = "Some" THEN plus(pr.value, rs.value)
        ELSE Panic

\* y - p is formed entry by entry on finite values without rounding
ExactDifference(y, p) ==
    /\ y.n_rows = p.n_rows
    /\ y.n_cols = p.n_cols
    /\ \A k \in 1 .. Len(y.values) :
          /\ is_finite(y.values[k])
          /\ is_finite(p.values[k])
          /\ Round(y.values[k] - p.values[k]) = y.values[k] - p.values[k]

\* C5 as stated: for every Fitted model, whatever its coefficients,
\* predict(Data.X) + residuals() equals Data.Y.
C5_ReconstructsExactly ==
    lm.variant = "Fitted"
        => LET sum == Reconstructed(lm, data[lm.data])
           IN  sum.kind = "Value" /\ MatEq(sum.value, data[lm.data].y)

\* C5, amended: for every Fitted model predict(None) ends as
\* predict(Some(Data.X)) does, residuals() ends as Data.Y minus
\* predict(Data.X) does (in a panic when either panics), and
\* predict(Data.X) + residuals() equals Data.Y whenever the difference
\* Data.Y - predict(Data.X) is formed without rounding on finite values.
C5_ReconstructsWhenExact ==
    lm.variant = "Fitted"
        => LET D == data[lm.data]
               pn == LinearModel_predict(lm, D, None)
               px == LinearModel_predict(lm, D, Some(D.x))
               rs == LinearModel_residuals(lm, D)
               df == IF px.kind = "Some" THEN minus(D.y, px.value) ELSE Panic
               sum == Reconstructed(lm, D)
           IN  /\ pn = px
               /\ rs = (IF df.kind = "Value" THEN Some(df.value) ELSE Panic)
               /\ (px.kind = "Some" /\ ExactDifference(D.y, px.value))
                      => (sum.kind = "Value" /\ MatEq(sum.value, D.y))

\* residuals() has returned a matrix that is not all zero for coefficients
\* that are not all zero, the difference formed without rounding
C5_Witness ==
    /\ op.name = "LinearModel::residuals"
    /\ lm.variant = "Fitted"
    /\ ret.kind = "Some"
    /\ NonZero(lm.coefficients)
    /\ NonZero(ret.value)
    /\ LET px == LinearModel_predict(lm, data[lm.data], Some(data[lm.data].x))
       IN  px.kind = "Some" /\ ExactDifference(data[lm.data].y, px.value)

(***************************************************************************)
(* Validation of the inputs.                                               *)
(***************************************************************************)
\* C6: every Data value that exists has as many rows in X as in Y (so that
\* Data::new of matrices with different row counts has produced none).
C6_DataRowsAgree ==
    \A d \in DataIds :
        Live(d) => check_that_x_and_y_have_the_same_number_of_rows(
                       data[d].x, data[d].y) = Unit

\* C7: a fit on Data whose X and Y have different row counts ends in an
\* error, and it has not invoked the decomposition routine.
C7_RowMismatchIsError ==
    (Fits /\ op.arg.kind # "Err" /\ data[op.d].x.n_rows # data[op.d].y.n_rows)
        => (ret.kind = "Err" /\ ~ffi.invoked)

\* C8: on a Fitted model whose coefficient matrix has p rows, predict(Some(x))
\* with an x whose column count is not p ends in an error: it neither
\* panics nor returns a matrix.
C8_PredictColumnsChecked ==
    ( /\ op.name = "LinearModel::predict"
      /\ op.arg.kind = "Some"
      /\ before.variant = "Fitted"
      /\ before.coefficients.n_rows = data[before.data].x.n_cols
      /\ op.arg.value.n_cols # data[before.data].x.n_cols )
        => ret.kind = "Err"

\* every entry finite, as lib.rs checks it
Finite(m) == check_that_2d_matrix_x_is_numeric(m) = Unit

\* C9: the decomposition routine is never invoked on Data with a NaN or an
\* infinity in X or Y: a fit of such Data ends in an error before that.
C9_NonFiniteIsError ==
    /\ ffi.invoked => (Finite(ffi.x) /\ Finite(ffi.y))
    /\ (Fits /\ op.arg.kind # "Err"
            /\ ~(Finite(data[op.d].x) /\ Finite(data[op.d].y)))
           => ret.kind = "Err"

\* C10: Tolerance::new(Some(v)) with v <= 0 produces no Tolerance, every
\* Tolerance built (by new(Some(v)), new(None) or default) is > 0, and the
\* tolerance the decomposition routine is invoked with is > 0.
C10_TolerancePositive ==
    /\ (op.name = "Tolerance::new" /\ op.tol.some /\ op.tol.v.m <= 0)
           => (ret = Panic /\ ~tolerance.some)
    /\ tolerance.some => tolerance.v.m > 0
    /\ ffi.invoked => ffi.tol.m > 0

(***************************************************************************)
(* What a fit returns and what it leaves behind.                           *)
(***************************************************************************)
\* the fitter handed to the last fit reported an error
FitterFailed == Fits /\ op.arg.kind = "Err"

\* C11: when the fitter reports an error, LinearModel::fit ends by handing
\* an error back to its caller (it does not panic) and the model is as it
\* was before the call.
C11_FitReturnsError == FitterFailed => (ret.kind = "Err" /\ lm = before)

\* C12: after a fit that has invoked the decomposition routine and
\* returned, the Data it was run on has every entry of X and of Y as it
\* was handed over.
C12_FitLeavesData ==
    (ffi.invoked /\ alive) => data[op.d] = Data_new(ffi.x, ffi.y)

\* the last operation was a fit through a QrDecompositionFitter that
\* returned, on Data whose X and Y have the same number of rows
QrFitReturned ==
    /\ Fits
    /\ op.arg.kind # "Err"
    /\ ret.kind = "Unit"
    /\ check_that_x_and_y_have_the_same_number_of_rows(ffi.x, ffi.y) = Unit

\* C13: two fits run one after the other on the same Data (the same
\* default tolerance) return identical coefficient matrices.
C13_RepeatedFitsAgree ==
    [][(QrFitReturned /\ QrFitReturned' /\ op'.d = op.d) => ffi'.ret = ffi.ret]_vars

\* C14: in every interleaving of dqrls calls that threads make on the same
\* Data, each call returns the coefficients it returns when run alone.
C14_ConcurrentFitsAgree ==
    \A t \in Threads :
        calls[t].pc = "done"
            => \E o \in dqrls(calls[t].seen, calls[t].tol) : o.ret = Ok(calls[t].beta)

\* C15: the coefficient matrix a fit returns and the Fitted model stores
\* has as many rows as X has columns and as many columns as Y, so that
\* X dot B is defined with the shape of Y.
C15_CoefficientsArePByQ ==
    QrFitReturned
        => /\ lm.variant = "Fitted"
           /\ lm.coefficients = ffi.ret.value
           /\ lm.coefficients.n_rows = ffi.x.n_cols
           /\ lm.coefficients.n_cols = ffi.y.n_cols
           /\ dot(ffi.x, lm.coefficients).kind = "Value"

\* the Data the model holds, as it was when the last fit was called: the
\* fit writes only to the Data its fitter was built on
HeldAtCall ==
    IF op.d = lm.data THEN Data_new(ffi.x, ffi.y) ELSE data[lm.data]

\* C18: after model.fit(fitter) the coefficients stored in the model are
\* those the fit computes from the Data the model holds, also when the
\* fitter was built on another Data.
C18_FitUsesHeldData ==
    (QrFitReturned /\ HeldAtCall.x.n_rows = HeldAtCall.y.n_rows)
        => \E o \in QrDecompositionFitter_fit(HeldAtCall) :
               o.ret = Ok(lm.coefficients)

\* every entry of a buffer is zero
ZeroFilled(v) == \A k \in 1 .. Len(v) : v[k] = 0

\* C17: the auxiliary arrays a dqrls call allocates for Data whose X has p
\* columns are a zero-filled pivot vector of length p, a zero-filled
\* auxiliary vector of length p and a zero-filled work array of length 2 * p.
C17_AuxiliaryArrays ==
    ffi.invoked
        => LET a == allocate_auxiliary_arrays(Data_new(ffi.x, ffi.y))
               p == ffi.x.n_cols
           IN  /\ Len(a[1]) = p /\ ZeroFilled(a[1])
               /\ Len(a[2]) = p /\ ZeroFilled(a[2])
               /\ Len(a[3]) = 2 * p /\ ZeroFilled(a[3])

Updates == op.name = "LinearModel::update_coefficients"

\* C20: update_coefficients on an Unfitted model changes nothing (the model
\* stays Unfitted on the same Data, and a coefficients() that follows
\* returns None); on a Fitted model it leaves exactly the supplied matrix
\* as the coefficients and the Data reference as it was.
C20_UpdateCoefficients ==
    [][/\ (Updates' /\ lm.variant = "Unfitted")
              => (lm' = lm /\ data' = data /\ LinearModel_coefficients(lm') = None)
       /\ (Updates' /\ lm.variant = "Fitted")
              => /\ lm'.variant = "Fitted"
                 /\ lm'.coefficients = op'.arg.value
                 /\ lm'.data = lm.data
       /\ (Updates /\ before.variant = "Unfitted"
               /\ op'.name = "LinearModel::coefficients")
              => ret' = None]_vars

\* update_coefficients has been handed a matrix on an Unfitted model
C20_Witness ==
    /\ Updates
    /\ before.variant = "Unfitted"
    /\ NonZero(op.arg.value)
    /\ lm.variant = "Unfitted"

(***************************************************************************)
(* The matrix operations.                                                  *)
(***************************************************************************)
SameShape(a, b) == a.n_rows = b.n_rows /\ a.n_cols = b.n_cols

\* the last operation was handed operands, or a buffer, that do not fit
ShapesDisagree ==
    \/ /\ op.name \in {"RealMatrix::plus", "RealMatrix::minus"}
       /\ ~SameShape(mat.self, op.arg.value)
    \/ /\ op.name = "RealMatrix::dot"
       /\ mat.self.n_cols # op.arg.value.n_rows
    \/ /\ op.name = "RealMatrix::from_vec"
       /\ Len(op.arg.value.values) # op.arg.value.n_rows * op.arg.value.n_cols

\* C16: plus and minus of matrices of different shapes, dot with inner
\* dimensions that differ and from_vec with a buffer of the wrong length
\* never return a matrix.
C16_ShapeMismatchIsError == ShapesDisagree => ret.kind # "Value"

\* C19: a new iterator over a matrix with k elements yields the k elements
\* once each, in order, and None from then on.
C19_IteratorVisitsOnce ==
    \A i \in 1 .. Len(mat.yielded) :
        mat.yielded[i] = (IF i <= Len(mat.self.values)
                          THEN Item(mat.self.values[i]) ELSE NoItem)

=============================================================================
